---- MODULE Spec2Model ----
(***************************************************************************)
(* MueLu::BlockedGaussSeidelSmoother                                       *)
(* (packages/muelu/src/Smoothers/BlockedSmoothers/                         *)
(*  MueLu_BlockedGaussSeidelSmoother_def.hpp).                             *)
(*                                                                         *)
(* The smoother object is the record `this` (its data members); one call   *)
(* of Apply is the frame `fr` (its arguments, locals and loop position).   *)
(* Scalars are integers.  A block-partitioned operator with N block rows   *)
(* is a grid of coefficients a[i][j]: the diagonal block (i,i) is          *)
(* a[i][i] * Identity with a[i][i] a unit (1 or -1), the off-diagonal      *)
(* block (i,j) is a[i][j] * (all-ones matrix); block i has sizes[i] rows.  *)
(* Indices i, run, pos are 0-based as in the code; sequences are 1-based,  *)
(* so row i of the code is element i+1.                                    *)
(***************************************************************************)
EXTENDS Integers, Sequences, FiniteSets, TLC

\* ------------------------------------------------------------------ bounds
\* largest block count of an operator handed to Setup
MaxN == 2
\* largest size of the registry FactManager_
MaxReg == 3
\* largest length to which Inverse_ is followed (Setup appends to it)
MaxInverse == 4
\* largest value of the "Sweeps" parameter
MaxSweeps == 2

\* ----------------------------------------------------------- integer vectors
RECURSIVE SumSeq(_)
SumSeq(s) == IF s = <<>> THEN 0 ELSE Head(s) + SumSeq(Tail(s))

RECURSIVE Flatten(_)
Flatten(ss) == IF ss = <<>> THEN <<>> ELSE Head(ss) \o Flatten(Tail(ss))

ZeroVec(n) == [k \in 1..n |-> 0]

\* MultiVector::update(alpha, A, beta) on plain data:  this = alpha*A + beta*this
VecUpdate(this, alpha, A, beta) == [k \in 1..Len(this) |-> alpha * A[k] + beta * this[k]]

\* ------------------------------------------------------------------ operators
\* Teuchos::null: no operator held
NullMatrix == [isNull |-> TRUE, blocked |-> FALSE, rows |-> 0, cols |-> 0,
               sizes |-> <<>>, a |-> <<>>, reordered |-> FALSE, brm |-> <<>>]

\* a plain (not block-partitioned) Matrix of dimension n
PlainMatrix(n) == [isNull |-> FALSE, blocked |-> FALSE, rows |-> 1, cols |-> 1,
                   sizes |-> <<n>>, a |-> <<<<1>>>>, reordered |-> FALSE, brm |-> <<>>]

\* a BlockedCrsMatrix with r block rows and c block columns
BlockedMatrix(r, c, sz, coef) == [isNull |-> FALSE, blocked |-> TRUE, rows |-> r, cols |-> c,
                                  sizes |-> sz, a |-> coef,
                                  reordered |-> FALSE, brm |-> <<>>]

\* a ReorderedBlockedCrsMatrix over the square BlockedCrsMatrix bA: its block k
\* is block brm[k] of bA (brm, the BlockReorderManager, is a permutation of
\* bA's blocks)
ReorderedBlockedMatrix(bA, brm) ==
  [bA EXCEPT !.sizes = [k \in 1..Len(brm) |-> bA.sizes[brm[k]]],
             !.a = [i \in 1..Len(brm) |-> [j \in 1..Len(brm) |-> bA.a[brm[i]][brm[j]]]],
             !.reordered = TRUE, !.brm = brm]

\* the blocks of a reordered sequence put back in the plain order
Unreorder(brm, q) == [m \in 1..Len(q) |-> q[CHOOSE k \in 1..Len(brm) : brm[k] = m]]

\* ReorderedBlockedCrsMatrix::getBlockedCrsMatrix(), getBlockReorderManager()
getBlockedCrsMatrix(rbA) ==
  [rbA EXCEPT !.sizes = Unreorder(rbA.brm, rbA.sizes),
              !.a = [i \in 1..Len(rbA.brm) |-> [j \in 1..Len(rbA.brm) |->
                       Unreorder(rbA.brm, Unreorder(rbA.brm, rbA.a)[i])[j]]],
              !.reordered = FALSE, !.brm = <<>>]
getBlockReorderManager(rbA) == rbA.brm

\* BlockedCrsMatrix::Rows(), Cols()
Rows(bA) == bA.rows
Cols(bA) == bA.cols

\* a MapExtractor: the sizes of the blocks it splits a vector into
MapExtractor(sz) == [valid |-> TRUE, sizes |-> sz]
NullExtractor == [valid |-> FALSE, sizes |-> <<>>]
getRangeMapExtractor(bA) == MapExtractor(SubSeq(bA.sizes, 1, bA.rows))
getDomainMapExtractor(bA) == MapExtractor(SubSeq(bA.sizes, 1, bA.cols))
NumMaps(me) == Len(me.sizes)

\* -------------------------------------------------------- factory managers
\* A FactoryManager registered for one block row: the smoother its "Smoother"
\* factory yields (smoo), whether the Level holds that smoother already
\* (ready), and whether the "A" its factory yields is itself a BlockedCrsMatrix
\* (nested).
FM(s, r, n) == [smoo |-> s, ready |-> r, nested |-> n]
FactoryManagers == {FM("exact", TRUE, FALSE), FM("richardson", FALSE, TRUE)}

\* the positions AddFactoryManager is called with
Positions == -1 .. MaxReg + 1

\* ---------------------------------------------------------------- the object
\* BlockedGaussSeidelSmoother::BlockedGaussSeidelSmoother(): the members after
\* construction; pL holds the defaults of GetValidParameterList.
Constructed == [FactManager_ |-> <<>>,
                A_ |-> NullMatrix,
                rangeMapExtractor_ |-> NullExtractor,
                domainMapExtractor_ |-> NullExtractor,
                Inverse_ |-> <<>>,
                bIsBlockedOperator_ |-> <<>>,
                isSetup |-> FALSE,
                pL |-> [Sweeps |-> 1, Damping |-> 1]]

\* the outcome of a call: the object after it and the exception it threw
Outcome(obj, e) == [this |-> obj, err |-> e]

\* AddFactoryManager without the test of line 56: as<size_t>(pos) of a negative
\* pos is beyond every size, and the entry is appended
AddFactoryManagerNoSignTest(this, FactManager, pos) ==
  IF 0 <= pos /\ pos < Len(this.FactManager_)
  THEN Outcome([this EXCEPT !.FactManager_[pos + 1] = FactManager], "none")
  ELSE Outcome([this EXCEPT !.FactManager_ = Append(@, FactManager)], "none")

\* AddFactoryManager inserting in front of an existing entry, not replacing it
AddFactoryManagerInserts(this, FactManager, pos) ==
  IF pos < 0 THEN Outcome(this, "RuntimeError")
  ELSE IF pos < Len(this.FactManager_)
       THEN Outcome([this EXCEPT !.FactManager_ =
                       SubSeq(@, 1, pos) \o <<FactManager>> \o SubSeq(@, pos + 1, Len(@))],
                    "none")
       ELSE Outcome([this EXCEPT !.FactManager_ = Append(@, FactManager)], "none")

\* AddFactoryManager refusing a position beyond the end
AddFactoryManagerRefusesGap(this, FactManager, pos) ==
  IF pos < 0 THEN Outcome(this, "RuntimeError")
  ELSE IF pos < Len(this.FactManager_)
       THEN Outcome([this EXCEPT !.FactManager_[pos + 1] = FactManager], "none")
       ELSE IF pos = Len(this.FactManager_)
            THEN Outcome([this EXCEPT !.FactManager_ = Append(@, FactManager)], "none")
            ELSE Outcome(this, "RuntimeError")

\* AddFactoryManager(FactManager, pos)
AddFactoryManager(this, FactManager, pos) ==
  IF pos < 0 THEN Outcome(this, "RuntimeError")
  ELSE IF pos < Len(this.FactManager_)
       THEN Outcome([this EXCEPT !.FactManager_[pos + 1] = FactManager], "none")
       ELSE IF pos = Len(this.FactManager_)
            THEN Outcome([this EXCEPT !.FactManager_ = Append(@, FactManager)], "none")
            ELSE Outcome([this EXCEPT !.FactManager_ = Append(@, FactManager)], "none")

\* Level::Get<RCP<SmootherBase> >("PreSmoother", factory) for the k-th factory
\* manager: the smoother built for the diagonal block (k,k) of the level's A
LevelGetPreSmoother(currentLevel, fm, k) ==
  [kind |-> fm.smoo,
   d |-> IF k <= currentLevel.A.rows /\ k <= currentLevel.A.cols
         THEN currentLevel.A.a[k][k] ELSE 1]

\* the loop of Setup over FactManager_ (lines 116-126), from element k on;
\* Level::Get throws when the smoother is not there
RECURSIVE SetupLoop(_, _, _)
SetupLoop(this, currentLevel, k) ==
  IF k > Len(this.FactManager_)
  THEN Outcome([this EXCEPT !.isSetup = TRUE], "none")
  ELSE LET it == this.FactManager_[k] IN
       IF ~it.ready
       THEN Outcome(this, "DependencyNotReady")
       ELSE SetupLoop([this EXCEPT
                         !.Inverse_ = Append(@, LevelGetPreSmoother(currentLevel, it, k)),
                         !.bIsBlockedOperator_ = Append(@, it.nested)],
                      currentLevel, k + 1)

\* Setup without the check of the block columns (line 108)
SetupNoColsCheck(this, currentLevel) ==
  LET t1 == [this EXCEPT !.A_ = currentLevel.A]
      bA == t1.A_
  IN IF ~bA.blocked THEN Outcome(t1, "BadCast")
     ELSE IF Rows(bA) # Len(t1.FactManager_) THEN Outcome(t1, "RuntimeError")
     ELSE SetupLoop([t1 EXCEPT !.rangeMapExtractor_ = getRangeMapExtractor(bA),
                               !.domainMapExtractor_ = getDomainMapExtractor(bA)],
                    currentLevel, 1)

\* Setup(currentLevel)
Setup(this, currentLevel) ==
  LET t1 == [this EXCEPT !.A_ = currentLevel.A]
      bA == t1.A_
  IN IF ~bA.blocked THEN Outcome(t1, "BadCast")
     ELSE IF Rows(bA) # Len(t1.FactManager_) THEN Outcome(t1, "RuntimeError")
     ELSE IF Cols(bA) # Len(t1.FactManager_) THEN Outcome(t1, "RuntimeError")
     ELSE SetupLoop([t1 EXCEPT !.rangeMapExtractor_ = getRangeMapExtractor(bA),
                               !.domainMapExtractor_ = getDomainMapExtractor(bA)],
                    currentLevel, 1)

\* a copy that takes the configuration only and leaves the bound state as
\* after construction
CopyUnbound(this) ==
  [Constructed EXCEPT !.FactManager_ = this.FactManager_, !.pL = this.pL]

\* Copy(): new BlockedGaussSeidelSmoother(*this), the copy constructor the
\* compiler generates (none is defined): every data member is copied, those
\* of the base classes (the setup state, the parameter list) included
Copy(this) ==
  [FactManager_ |-> this.FactManager_,
   A_ |-> this.A_,
   rangeMapExtractor_ |-> this.rangeMapExtractor_,
   domainMapExtractor_ |-> this.domainMapExtractor_,
   Inverse_ |-> this.Inverse_,
   bIsBlockedOperator_ |-> this.bIsBlockedOperator_,
   isSetup |-> this.isSetup,
   pL |-> this.pL]

\* ------------------------------------------------------------ multi-vectors
\* A MultiVector (one column): flat, blocks = << data >>, or a BlockedMultiVector,
\* blocks = the sub-vectors.
FlatVector(data) == [blocked |-> FALSE, blocks |-> <<data>>]
BlockedVector(bs) == [blocked |-> TRUE, blocks |-> bs]

\* the sub-vectors a flat vector splits into under a blocked map
RECURSIVE Split(_, _)
Split(data, sizes) ==
  IF sizes = <<>> THEN <<>>
  ELSE <<SubSeq(data, 1, Head(sizes))>>
       \o Split(SubSeq(data, Head(sizes) + 1, Len(data)), Tail(sizes))

\* BlockedCrsMatrix::getBlockedDomainMap(), getBlockedRangeMap()
getBlockedDomainMap(bA) == SubSeq(bA.sizes, 1, bA.cols)
getBlockedRangeMap(bA) == SubSeq(bA.sizes, 1, bA.rows)

\* BlockedMultiVector(blockedMap, v): a new vector holding copies of v's parts
NewBlockedMultiVector(bmap, v) == BlockedVector(Split(v.blocks[1], bmap))

\* BlockedMultiVector::Merge()
Merge(bv) == FlatVector(Flatten(bv.blocks))

\* buildReorderedBlockedMultiVector(brm, bvec): block k is bvec's block brm[k],
\* the same storage, not a copy
buildReorderedBlockedMultiVector(brm, bvec) ==
  BlockedVector([k \in 1..Len(brm) |-> bvec.blocks[brm[k]]])

\* MultiVector::putScalar(value)
putScalar(v, value) ==
  [v EXCEPT !.blocks = [k \in 1..Len(v.blocks) |-> [m \in 1..Len(v.blocks[k]) |-> value]]]

\* sum over block columns j..Cols of  A[row][j] * x_j  (element k of block row)
RECURSIVE RowSum(_, _, _, _, _)
RowSum(bA, xb, row, k, j) ==
  IF j > Cols(bA) THEN 0
  ELSE (IF j = row THEN bA.a[row][j] * xb[j][k] ELSE bA.a[row][j] * SumSeq(xb[j]))
       + RowSum(bA, xb, row, k, j + 1)

\* BlockedCrsMatrix::bgs_apply(X, Y, row, NO_TRANS, alpha, beta):
\*   Y_row = beta * Y_row + alpha * sum_j A[row][j] * X_j,  other blocks of Y kept
bgs_apply(bA, X, Y, row, alpha, beta) ==
  [Y EXCEPT !.blocks[row + 1] =
     [k \in 1..Len(Y.blocks[row + 1]) |->
        beta * Y.blocks[row + 1][k] + alpha * RowSum(bA, X.blocks, row + 1, k, 1)]]

\* SmootherBase::Apply(X, B, InitialGuessIsZero) of a sub-smoother bound to the
\* diagonal block d * Identity:
\*   "exact"       X = d^-1 * B  (d is a unit, d^-1 = d)
\*   "richardson"  one step  X = X0 + (B - d * X0),  X0 = 0 when the flag is set
SmootherApply(smoo, X, B, InitialGuessIsZero) ==
  IF smoo.kind = "exact"
  THEN [k \in 1..Len(B) |-> smoo.d * B[k]]
  ELSE LET X0 == IF InitialGuessIsZero THEN ZeroVec(Len(X)) ELSE X
       IN [k \in 1..Len(B) |-> X0[k] + (B[k] - smoo.d * X0[k])]

\* ------------------------------------------------------------------- Apply
\* One call of Apply(X, B, InitialGuessIsZero): its arguments (X and B are the
\* caller's vectors), its locals and its position.  pc is "idle" (no call yet),
\* "sweep" (inside the loops of lines 245-268) or "done" (returned, or threw
\* err).  X0 and xSweep are history: X on entry, and the working vector when
\* the current sweep began.  calls lists the sub-smoother invocations, each
\* with its sweep, its row, its arguments and whether the residual product of
\* line 253 was done for it.
NoVector == FlatVector(<<>>)
IdleFrame == [pc |-> "idle", err |-> "none",
              X |-> NoVector, B |-> NoVector, InitialGuessIsZero |-> FALSE,
              X0 |-> NoVector, B0 |-> NoVector,
              bCopyResultX |-> FALSE, rcpX |-> NoVector, rcpB |-> NoVector,
              residual |-> NoVector, nSweeps |-> 0, omega |-> 0,
              run |-> 0, i |-> 0, xSweep |-> NoVector, calls |-> <<>>]

\* a write to the working vector rcpX; rcpX is X itself unless X was wrapped
SetWork(fr, v) ==
  [fr EXCEPT !.rcpX = v, !.X = IF fr.bCopyResultX THEN @ ELSE v]

\* the solution left as the caller passed it
ClearSolutionSkipped(fr) == fr

\* Apply, lines 241-242: the solution cleared when InitialGuessIsZero is set
ClearSolution(fr) ==
  IF fr.InitialGuessIsZero = TRUE
  THEN [SetWork(fr, putScalar(fr.rcpX, 0)) EXCEPT !.xSweep = putScalar(fr.rcpX, 0)]
  ELSE fr

\* the throw of line 133 made after the zero-initial-guess step
NotSetupAfterReset(fr) ==
  [fr EXCEPT !.pc = "done", !.err = "RuntimeError",
             !.X = IF fr.InitialGuessIsZero THEN putScalar(@, 0) ELSE @]

\* Apply, line 133: Setup() has not been called
NotSetup(fr) == [fr EXCEPT !.pc = "done", !.err = "RuntimeError"]

\* Apply, lines 133-242: the checks, the wrapping of X and B, the parameters
\* and the zero initial guess.  For a ReorderedBlockedCrsMatrix (rbA not null)
\* a flat vector is wrapped over the plain blocked map of the underlying
\* operator and then reordered (lines 176-228).
ApplyEnter(this, X, B, InitialGuessIsZero) ==
  LET f0 == [IdleFrame EXCEPT !.X = X, !.B = B, !.X0 = X, !.B0 = B,
                              !.InitialGuessIsZero = InitialGuessIsZero]
      bA == this.A_
  IN IF this.isSetup = FALSE THEN NotSetup(f0)
     ELSE IF ~bA.blocked THEN [f0 EXCEPT !.pc = "done", !.err = "RuntimeError"]
     ELSE LET rbA == bA.reordered
              pA == IF rbA THEN getBlockedCrsMatrix(bA) ELSE bA
              bCopy == ~X.blocked
              bX == IF X.blocked THEN X
                    ELSE NewBlockedMultiVector(getBlockedDomainMap(pA), X)
              bB == IF B.blocked THEN B
                    ELSE NewBlockedMultiVector(getBlockedRangeMap(pA), B)
              rcpX == IF rbA /\ (Len(bX.blocks) # NumMaps(getDomainMapExtractor(bA))
                                 \/ ~X.blocked)
                      THEN buildReorderedBlockedMultiVector(getBlockReorderManager(bA), bX)
                      ELSE bX
              rcpB == IF rbA /\ (Len(bB.blocks) # NumMaps(getRangeMapExtractor(bA))
                                 \/ ~B.blocked)
                      THEN buildReorderedBlockedMultiVector(getBlockReorderManager(bA), bB)
                      ELSE bB
              f1 == [f0 EXCEPT !.pc = "sweep", !.bCopyResultX = bCopy,
                               !.rcpX = rcpX, !.rcpB = rcpB,
                               !.residual = putScalar(rcpB, 0),
                               !.nSweeps = this.pL.Sweeps,
                               !.omega = this.pL.Damping,
                               !.xSweep = rcpX]
          IN ClearSolution(f1)

\* the residual product skipped in the whole first sweep, not in row 0 only
DoResidualProductSkipsSweep(InitialGuessIsZero, i, run) ==
  InitialGuessIsZero = FALSE \/ run > 0

\* the residual product skipped in row 0 of every sweep
DoResidualProductSkipsRowZero(InitialGuessIsZero, i, run) ==
  InitialGuessIsZero = FALSE \/ i > 0

\* whether the residual product of line 253 is done for this row
DoResidualProduct(InitialGuessIsZero, i, run) ==
  InitialGuessIsZero = FALSE \/ i > 0 \/ run > 0

\* the block residual taken against the vector the sweep began with (Jacobi)
BlockResidualJacobi(this, fr) ==
  LET r0 == [fr.residual EXCEPT !.blocks = fr.rcpB.blocks]
  IN IF DoResidualProduct(fr.InitialGuessIsZero, fr.i, fr.run)
     THEN bgs_apply(this.A_, fr.xSweep, r0, fr.i, -1, 1)
     ELSE r0

\* Apply, lines 251-253: the block residual  r = B - A*X  of row i
BlockResidual(this, fr) ==
  LET r0 == [fr.residual EXCEPT !.blocks = fr.rcpB.blocks]
  IN IF DoResidualProduct(fr.InitialGuessIsZero, fr.i, fr.run)
     THEN bgs_apply(this.A_, fr.rcpX, r0, fr.i, -1, 1)
     ELSE r0

\* the residual built in the storage of the right-hand side, not in a vector
\* of its own
SetResidualInB(fr, v) ==
  [fr EXCEPT !.residual = v, !.rcpB = v, !.B = IF fr.B.blocked THEN v ELSE @]

\* a write to residual, the vector built at line 232: a vector of its own
\* over the map of rcpB
SetResidual(fr, v) == [fr EXCEPT !.residual = v]

\* the sub-smoother told that its initial guess is zero
SubSmootherFlagSet == TRUE

\* Apply, line 263: the flag handed to the sub-smoother
SubSmootherFlag == FALSE

\* the update with the correction subtracted
DampedUpdateMinus(Xi, omega, tXi) == VecUpdate(Xi, -omega, tXi, 1)

\* the update without the damping factor
DampedUpdateUndamped(Xi, omega, tXi) == VecUpdate(Xi, 1, tXi, 1)

\* Apply, line 266:  X_i = X_i + omega * tXi
DampedUpdate(Xi, omega, tXi) == VecUpdate(Xi, omega, tXi, 1)

\* a row the operator, a map extractor or a vector does not have: bgs_apply,
\* ExtractVector, getVector or update throws
RowFault(this, fr) ==
  \/ DoResidualProduct(fr.InitialGuessIsZero, fr.i, fr.run) /\ fr.i >= Rows(this.A_)
  \/ fr.i >= NumMaps(this.domainMapExtractor_)
  \/ fr.i >= NumMaps(this.rangeMapExtractor_)
  \/ fr.i >= Len(fr.rcpX.blocks)
  \/ fr.i >= Len(fr.residual.blocks)
  \/ Len(fr.rcpX.blocks[fr.i + 1]) # this.domainMapExtractor_.sizes[fr.i + 1]
  \/ Len(fr.residual.blocks[fr.i + 1]) # this.domainMapExtractor_.sizes[fr.i + 1]

\* the loop header of line 248 after i++, and of line 245 after ++run
NextRow(this, fr) ==
  IF fr.i + 1 < Len(this.Inverse_)
  THEN [fr EXCEPT !.i = fr.i + 1]
  ELSE [fr EXCEPT !.i = 0, !.run = fr.run + 1]

\* Apply, lines 249-266: the body of the loops for block row i of sweep run
\* (xSweep records the working vector as row 0 begins)
ApplyRow(this, fr) ==
  IF RowFault(this, fr) THEN [fr EXCEPT !.pc = "done", !.err = "OutOfRange"]
  ELSE
  LET i == fr.i
      f0 == IF i = 0 THEN [fr EXCEPT !.xSweep = fr.rcpX] ELSE fr
      residual == BlockResidual(this, f0)
      Xi == f0.rcpX.blocks[i + 1]
      ri == residual.blocks[i + 1]
      tXi0 == ZeroVec(this.domainMapExtractor_.sizes[i + 1])
      tXi == SmootherApply(this.Inverse_[i + 1], tXi0, ri, SubSmootherFlag)
      call == [run |-> f0.run, i |-> i, X |-> tXi0, B |-> ri,
               InitialGuessIsZero |-> SubSmootherFlag,
               product |-> DoResidualProduct(f0.InitialGuessIsZero, i, f0.run)]
      f1 == SetWork(f0, [f0.rcpX EXCEPT !.blocks[i + 1] = DampedUpdate(Xi, f0.omega, tXi)])
  IN NextRow(this, [SetResidual(f1, residual) EXCEPT !.calls = Append(@, call)])

\* the loops left one sweep late
SweepsDoneLate(this, fr) == ~(fr.run <= fr.nSweeps /\ fr.i < Len(this.Inverse_))

\* whether the loops of lines 245-268 are over
SweepsDone(this, fr) == ~(fr.run < fr.nSweeps /\ fr.i < Len(this.Inverse_))

\* the return without the copy of the merged result into a flat X
ApplyExitNoCopy(this, fr) == [fr EXCEPT !.pc = "done"]

\* the return never made: the call stays where it is
ApplyExitNeverReturns(this, fr) == fr

\* the merge of the working vector rcpX in place of bX
ApplyExitMergesWorking(this, fr) ==
  IF fr.bCopyResultX = TRUE
  THEN LET Xmerged == Merge(fr.rcpX)
       IN [fr EXCEPT !.pc = "done",
                     !.X = FlatVector(VecUpdate(fr.X.blocks[1], 1, Xmerged.blocks[1], 0))]
  ELSE [fr EXCEPT !.pc = "done"]

\* Apply, lines 270-273: the merge back into a flat X, and the return.  bX is
\* the wrapper of line 210 (the working vector before the reordering of lines
\* 217-221, whose sub-vectors the reordered vector shares).
ApplyExit(this, fr) ==
  IF fr.bCopyResultX = TRUE
  THEN LET bX == IF this.A_.reordered
                 THEN BlockedVector(Unreorder(this.A_.brm, fr.rcpX.blocks))
                 ELSE fr.rcpX
           Xmerged == Merge(bX)
       IN [fr EXCEPT !.pc = "done",
                     !.X = FlatVector(VecUpdate(fr.X.blocks[1], 1, Xmerged.blocks[1], 0))]
  ELSE [fr EXCEPT !.pc = "done"]

\* a whole call of Apply from frame fr on, to its return
RECURSIVE RunApply(_, _)
RunApply(this, fr) ==
  IF fr.pc # "sweep" THEN fr
  ELSE IF SweepsDone(this, fr) THEN ApplyExit(this, fr)
  ELSE RunApply(this, ApplyRow(this, fr))

\* ------------------------------------------------------------- the inputs
\* block sizes of an operator with n blocks: the first block has two rows
BlockSizes(n) == [k \in 1..n |-> IF k = 1 THEN 2 ELSE 1]

Max(m, n) == IF m >= n THEN m ELSE n

\* the r x c block operator with unit diagonal blocks and coupling lo below
\* and up above the diagonal
Coupled(r, c, lo, up) ==
  BlockedMatrix(r, c, BlockSizes(Max(r, c)),
                [i \in 1..r |-> [j \in 1..c |-> IF i = j THEN 1 ELSE IF j < i THEN lo ELSE up]])

\* the operators a Level hands to Setup: a plain matrix, and block operators
\* of every shape up to MaxN x MaxN
LevelOperators ==
  {PlainMatrix(2)} \cup {Coupled(r, c, 1, 0) : r \in 1..MaxN, c \in 1..MaxN}

\* the number of entries of a vector over the blocked map sizes
Dim(sizes) == SumSeq(sizes)

\* the vectors whose entries all equal one value of vals
UniformVectors(sizes, vals) ==
  LET datas == {[k \in 1..Dim(sizes) |-> v] : v \in vals}
  IN {FlatVector(d) : d \in datas} \cup {BlockedVector(Split(d, sizes)) : d \in datas}

\* the blocked maps of the vectors a caller holds for the operator A; with no
\* operator bound, vectors of two entries
CallerDomainMap(A) == IF A.isNull THEN <<2>> ELSE getBlockedDomainMap(A)
CallerRangeMap(A) == IF A.isNull THEN <<2>> ELSE getBlockedRangeMap(A)

\* Factory::SetParameter("Sweeps", .), ("Damping factor", .)
SetParameterList(this, sweeps, damping) ==
  [this EXCEPT !.pL = [Sweeps |-> sweeps, Damping |-> damping]]

\* AddFactoryManager(fms[k], k-1) for k = from .. Len(fms)
RECURSIVE RegisterAll(_, _, _)
RegisterAll(this, fms, from) ==
  IF from > Len(fms) THEN this
  ELSE RegisterAll(AddFactoryManager(this, fms[from], from - 1).this, fms, from + 1)

\* the smoother built for operator A: constructed, configured, one factory
\* manager registered per block row, and Setup called once
SetUpFor(A, fms, sweeps, damping) ==
  Setup(SetParameterList(RegisterAll(Constructed, fms, 1), sweeps, damping), [A |-> A])

\* ------------------------------------------------------------ the state
VARIABLES this, fr, ret
vars == <<this, fr, ret>>

\* the last call: its name, the exception it threw ("none": it returned;
\* "running": Apply is inside its loops) and the operator it was given
\* (for AddFactoryManager also its arguments FactManager and pos)
NoFactoryManager == FM("none", FALSE, FALSE)
Ret(op, e, A) == [op |-> op, err |-> e, A |-> A, FactManager |-> NoFactoryManager, pos |-> 0]
RetRegister(e, FactManager, pos) ==
  [op |-> "AddFactoryManager", err |-> e, A |-> NullMatrix,
   FactManager |-> FactManager, pos |-> pos]

Init ==
  /\ this = Constructed
  /\ fr = IdleFrame
  /\ ret = Ret("new", "none", NullMatrix)

\* a call of AddFactoryManager
Register ==
  /\ fr.pc # "sweep"
  /\ \E FactManager \in FactoryManagers, pos \in Positions :
       /\ pos >= Len(this.FactManager_) => Len(this.FactManager_) < MaxReg
       /\ LET o == AddFactoryManager(this, FactManager, pos)
          IN /\ this' = o.this
             /\ ret' = RetRegister(o.err, FactManager, pos)
  /\ fr' = IdleFrame

\* a call of Setup with a Level holding the operator A
SetupCall ==
  /\ fr.pc # "sweep"
  /\ Len(this.Inverse_) + Len(this.FactManager_) <= MaxInverse
  /\ \E A \in LevelOperators :
       LET o == Setup(this, [A |-> A])
       IN /\ this' = o.this
          /\ ret' = Ret("Setup", o.err, A)
  /\ fr' = IdleFrame

\* a call of Apply: its entry
ApplyCall ==
  /\ fr.pc # "sweep"
  /\ \E X \in UniformVectors(CallerDomainMap(this.A_), {2}),
        B \in UniformVectors(CallerRangeMap(this.A_), {1}),
        InitialGuessIsZero \in BOOLEAN :
       /\ X.blocked = B.blocked
       /\ fr' = ApplyEnter(this, X, B, InitialGuessIsZero)
       /\ ret' = Ret("Apply", IF fr'.pc = "sweep" THEN "running" ELSE fr'.err, NullMatrix)
  /\ UNCHANGED this

\* one pass through the body of the loops of Apply
ApplyStep ==
  /\ fr.pc = "sweep"
  /\ ~SweepsDone(this, fr)
  /\ fr' = ApplyRow(this, fr)
  /\ ret' = Ret("Apply", IF fr'.pc = "sweep" THEN "running" ELSE fr'.err, NullMatrix)
  /\ UNCHANGED this

\* the end of Apply
ApplyReturn ==
  /\ fr.pc = "sweep"
  /\ SweepsDone(this, fr)
  /\ fr' = ApplyExit(this, fr)
  /\ ret' = Ret("Apply", fr'.err, NullMatrix)
  /\ UNCHANGED this

\* a call of Copy; the calls that follow are made on the copy
CopyCall ==
  /\ fr.pc # "sweep"
  /\ ret.op # "Copy"
  /\ this' = Copy(this)
  /\ ret' = Ret("Copy", "none", NullMatrix)
  /\ fr' = IdleFrame

Next == Register \/ SetupCall \/ ApplyCall \/ ApplyStep \/ ApplyReturn \/ CopyCall

Spec == Init /\ [][Next]_vars

\* --------------------------------------------- Apply on a set-up smoother
\* the n x n block operator with diagonal units d and coupling lo below and
\* up above the diagonal
SolveOperator(n, sz, d, lo, up) ==
  BlockedMatrix(n, n, sz,
                [i \in 1..n |-> [j \in 1..n |->
                    IF i = j THEN d[i] ELSE IF j < i THEN lo ELSE up]])

Couplings == {0, 1}

\* the diagonals tried: all +1, and the two alternations of +1 and -1
Diagonals(n) ==
  {[k \in 1..n |-> 1], [k \in 1..n |-> IF k % 2 = 1 THEN 1 ELSE -1],
   [k \in 1..n |-> IF k % 2 = 1 THEN -1 ELSE 1]}

PlainOperators ==
  UNION {{SolveOperator(n, sz, d, lo, up) :
            sz \in {[k \in 1..n |-> 1], BlockSizes(n)},
            d \in Diagonals(n), lo \in Couplings, up \in Couplings} : n \in 1..MaxN}

\* each operator with blocks of unequal sizes, its blocks reordered back to front
ReorderedOperators ==
  {ReorderedBlockedMatrix(bA, [k \in 1..Rows(bA) |-> Rows(bA) + 1 - k]) :
     bA \in {pA \in PlainOperators : Rows(pA) >= 2 /\ pA.sizes = BlockSizes(Rows(pA))}}

SolveOperators == PlainOperators \cup ReorderedOperators

\* the sub-smoothers tried for n block rows: all exact, all Richardson, and
\* the two kinds alternating
SmootherChoices(n) ==
  {[k \in 1..n |-> FM("exact", TRUE, FALSE)],
   [k \in 1..n |-> FM("richardson", TRUE, TRUE)],
   [k \in 1..n |-> IF k % 2 = 1 THEN FM("exact", TRUE, FALSE)
                   ELSE FM("richardson", TRUE, TRUE)]}

\* the values of the "Damping factor" parameter
Dampings == {0, 1, 2}

\* the right-hand sides tried: all 2, all -1, and 2 and -1 alternating
BData(n) ==
  {[k \in 1..n |-> 2], [k \in 1..n |-> -1],
   [k \in 1..n |-> IF k % 2 = 1 THEN 2 ELSE -1],
   [k \in 1..n |-> IF k % 2 = 1 THEN -1 ELSE 2]}

\* the entry values of x tried: all 0, and 1, 2, 3, ...
XData(n) == {[k \in 1..n |-> 0], [k \in 1..n |-> k]}

\* the flat and the blocked form of each vector of datas
BothForms(datas, sizes) ==
  {FlatVector(d) : d \in datas} \cup {BlockedVector(Split(d, sizes)) : d \in datas}

InitApply ==
  /\ \E A \in SolveOperators, sweeps \in 0..MaxSweeps, damping \in Dampings :
       \E fms \in SmootherChoices(Rows(A)) :
         /\ this = SetUpFor(A, fms, sweeps, damping).this
         /\ ret = Ret("Setup", SetUpFor(A, fms, sweeps, damping).err, A)
  /\ fr = IdleFrame

\* a call of Apply on the set-up smoother: its entry
ApplySolve ==
  /\ fr.pc = "idle"
  /\ \E X \in BothForms(XData(Dim(getBlockedDomainMap(this.A_))), getBlockedDomainMap(this.A_)),
        B \in BothForms(BData(Dim(getBlockedRangeMap(this.A_))), getBlockedRangeMap(this.A_)),
        InitialGuessIsZero \in BOOLEAN :
       /\ fr' = ApplyEnter(this, X, B, InitialGuessIsZero)
       /\ ret' = Ret("Apply", IF fr'.pc = "sweep" THEN "running" ELSE fr'.err, NullMatrix)
  /\ UNCHANGED this

NextApply == ApplySolve \/ ApplyStep \/ ApplyReturn

SpecApply == InitApply /\ [][NextApply]_vars

\* the set-up smoothers whose calls of Apply are followed to their end: every
\* operator, sub-smoother choice and sweep count, the damping factor at its
\* default (the loops do not read it)
InitLive == InitApply /\ this.pL.Damping = Constructed.pL.Damping

\* Apply is one synchronous call: once entered, the thread that runs it goes
\* on through the loop bodies and the return for as long as each is enabled
LiveApply ==
  InitLive /\ [][NextApply]_vars /\ WF_vars(ApplyStep) /\ WF_vars(ApplyReturn)

\* ------------------------------------------------------------- properties
\* the state Setup binds: the operator, the map extractors, the sub-smoothers,
\* the nested-block flags and the setup state
Bound(obj) == <<obj.A_, obj.rangeMapExtractor_, obj.domainMapExtractor_,
                obj.Inverse_, obj.bIsBlockedOperator_, obj.isSetup>>

AllReady(obj) == \A k \in 1..Len(obj.FactManager_) : obj.FactManager_[k].ready

\* C1: a Setup given a block-partitioned operator (N >= 1 block rows) while
\* every registered sub-smoother is ready returns, with the setup state true,
\* exactly when the registry size R equals the operator's block row count and
\* its block column count; in every other case it throws the count-mismatch
\* error of lines 107-108 (Exceptions::RuntimeError, the spec's
\* ConfigurationError).
C1_SetupIffCountsMatch ==
  (ret.op = "Setup" /\ ret.A.blocked /\ Rows(ret.A) >= 1 /\ AllReady(this))
  => LET R == Len(this.FactManager_)
     IN IF R = Rows(ret.A) /\ R = Cols(ret.A)
        THEN ret.err = "none" /\ this.isSetup = TRUE
        ELSE ret.err = "RuntimeError"

\* C1 witness: a Setup of a 2 x 2 block operator with two ready sub-smoothers
\* has succeeded
C1_Witness ==
  /\ ret.op = "Setup" /\ ret.A.blocked /\ AllReady(this)
  /\ Rows(ret.A) = 2 /\ Cols(ret.A) = 2 /\ Len(this.FactManager_) = 2
  /\ ret.err = "none" /\ this.isSetup = TRUE

\* C3: Setup is idempotent: a Setup that succeeds right after a successful
\* Setup with the same operator (and the same registry) leaves the bound
\* sub-smoother list and the nested-block flags as the first one left them.
C3_SetupIdempotent ==
  [][(/\ ret.op = "Setup" /\ ret.err = "none"
      /\ ret'.op = "Setup" /\ ret'.err = "none"
      /\ ret'.A = ret.A /\ this'.FactManager_ = this.FactManager_)
     => /\ this'.Inverse_ = this.Inverse_
        /\ this'.bIsBlockedOperator_ = this.bIsBlockedOperator_]_vars

\* C4: whenever the setup state is true, the number of bound sub-smoothers
\* equals the bound operator's block row and block column count, and Apply
\* never addresses a block row the operator does not have.
C4_BoundCountsAgree ==
  /\ this.isSetup = TRUE
     => /\ this.A_.blocked
        /\ Len(this.Inverse_) = Rows(this.A_)
        /\ Len(this.Inverse_) = Cols(this.A_)
  /\ fr.err # "OutOfRange"

\* C5: a Setup that fails leaves the bound operator, the map extractors, the
\* bound sub-smoothers, the nested-block flags and the setup state as they
\* were before the call.
C5_FailedSetupCommitsNothing ==
  [][(ret'.op = "Setup" /\ ret'.err # "none") => Bound(this') = Bound(this)]_vars

\* Apply has returned normally
Returned == fr.pc = "done" /\ fr.err = "none"

\* the entries of a vector, whichever its form
Values(v) == Flatten(v.blocks)

\* the product A * x, block by block (x given by its sub-vectors)
Product(bA, xb) ==
  [i \in 1..Rows(bA) |-> [k \in 1..bA.sizes[i] |-> RowSum(bA, xb, i, k, 1)]]

\* the sub-vectors of v in the block order of the operator bA: a flat vector
\* over a reordered operator lists the blocks in the plain order
BlocksFor(bA, v) ==
  IF v.blocked THEN v.blocks
  ELSE IF bA.reordered
       THEN buildReorderedBlockedMultiVector(bA.brm,
              BlockedVector(Split(v.blocks[1], getBlockedCrsMatrix(bA).sizes))).blocks
       ELSE Split(v.blocks[1], bA.sizes)

\* x solves  A x = b
Solves(bA, x, b) == Product(bA, BlocksFor(bA, x)) = BlocksFor(bA, b)

AllExact(obj) == \A k \in 1..Len(obj.Inverse_) : obj.Inverse_[k].kind = "exact"

\* one sweep with damping 1 from a zero initial guess, exact sub-smoothers
OneExactSweep ==
  /\ Returned /\ AllExact(this)
  /\ fr.nSweeps = 1 /\ fr.omega = 1 /\ fr.InitialGuessIsZero = TRUE

\* the sub-vectors the last sub-smoother call's row saw: those of the rows
\* before it as they are now (this sweep's update), its own and the later
\* ones as they were when the sweep began
SeenByLastCall ==
  LET c == fr.calls[Len(fr.calls)]
  IN [j \in 1..Len(fr.rcpX.blocks) |->
        IF j < c.i + 1 THEN fr.rcpX.blocks[j] ELSE fr.xSweep.blocks[j]]

\* C2: within every sweep the block rows are processed in ascending order
\* 0..N-1 (the k-th sub-smoother call of Apply is row (k-1) mod N of sweep
\* (k-1) div N), and the residual handed to row i's sub-smoother is
\* b_i - sum_j A[i][j] x_j  with x_j this sweep's update for j < i and the
\* value from the previous sweep (or the initial guess) for j >= i.
C2_GaussSeidelOrder ==
  (fr.pc # "idle" /\ fr.err = "none")
  => LET N == Len(this.Inverse_)
     IN /\ \A k \in 1..Len(fr.calls) :
             /\ fr.calls[k].i = (k - 1) % N
             /\ fr.calls[k].run = (k - 1) \div N
        /\ fr.calls # <<>>
           => LET c == fr.calls[Len(fr.calls)]
              IN c.B = [k \in 1..Len(fr.rcpB.blocks[c.i + 1]) |->
                          fr.rcpB.blocks[c.i + 1][k]
                            - RowSum(this.A_, SeenByLastCall, c.i + 1, k, 1)]

\* C2 witness: the second row of the second sweep has been processed, on an
\* operator coupled both ways, and the first sweep changed x
C2_Witness ==
  /\ fr.err = "none" /\ Len(fr.calls) = 4 /\ Rows(this.A_) = 2
  /\ this.A_.a[2][1] # 0 /\ this.A_.a[1][2] # 0
  /\ fr.omega = 1 /\ fr.InitialGuessIsZero = FALSE
  /\ fr.xSweep # fr.X0 /\ fr.rcpX # fr.xSweep

\* C6: for a 2 x 2 block system with A[0][1] = 0 and A[1][0] # 0 and exact
\* sub-smoothers, one sweep with damping 1 from a zero initial guess returns
\* the exact solution of A x = b.
C6_ForwardSubstitution ==
  (/\ OneExactSweep /\ Rows(this.A_) = 2
   /\ this.A_.a[1][2] = 0 /\ this.A_.a[2][1] # 0)
  => Solves(this.A_, fr.X, fr.B0)

\* C6 witness: such a run has returned, on a right-hand side with distinct
\* entries and from a nonzero entry value of x
C6_Witness ==
  /\ OneExactSweep /\ Rows(this.A_) = 2
  /\ this.A_.a[1][2] = 0 /\ this.A_.a[2][1] # 0
  /\ Values(fr.B0) = <<2, -1>> /\ Values(fr.X0) = <<1, 2>>
  /\ Len(fr.calls) = 2

Reverse(q) == [k \in 1..Len(q) |-> q[Len(q) + 1 - k]]

\* the plain operator holding the blocks of bA in the opposite order
SwapOperator(bA) ==
  [bA EXCEPT !.sizes = Reverse(SubSeq(bA.sizes, 1, Rows(bA))),
             !.a = [i \in 1..Rows(bA) |-> [j \in 1..Cols(bA) |->
                      bA.a[Rows(bA) + 1 - i][Cols(bA) + 1 - j]]],
             !.reordered = FALSE, !.brm = <<>>]

\* the vector with its sub-vectors (in the block order of bA) in the opposite
\* order, in the form of v
SwapVector(v, bA) ==
  IF v.blocked THEN BlockedVector(Reverse(v.blocks))
  ELSE FlatVector(Flatten(Reverse(BlocksFor(bA, v))))

\* the call of Apply that has returned, made over again on the system with
\* the blocks in the opposite order: operator, registry, x and b swapped
SwappedRun ==
  LET A2 == SwapOperator(this.A_)
      obj == SetUpFor(A2, Reverse(this.FactManager_), this.pL.Sweeps, this.pL.Damping).this
  IN RunApply(obj, ApplyEnter(obj, SwapVector(fr.X0, this.A_), SwapVector(fr.B0, this.A_),
                              fr.InitialGuessIsZero))

\* C7: for a 2 x 2 block-diagonal system with exact sub-smoothers, one sweep
\* with damping 1 from a zero initial guess returns the exact solution, and
\* the same one when the two blocks are placed in the opposite order.
C7_BlockDiagonalExact ==
  (/\ OneExactSweep /\ Rows(this.A_) = 2
   /\ this.A_.a[1][2] = 0 /\ this.A_.a[2][1] = 0)
  => LET swapped == SwappedRun
     IN /\ Solves(this.A_, fr.X, fr.B0)
        /\ swapped.pc = "done" /\ swapped.err = "none"
        /\ Reverse(BlocksFor(SwapOperator(this.A_), swapped.X)) = BlocksFor(this.A_, fr.X)

\* C7 witness: such a run has returned, the two diagonal blocks differing
C7_Witness ==
  /\ OneExactSweep /\ Rows(this.A_) = 2
  /\ this.A_.a[1][2] = 0 /\ this.A_.a[2][1] = 0
  /\ this.A_.a[1][1] # this.A_.a[2][2]
  /\ Values(fr.B0) = <<-1, 2>> /\ Len(fr.calls) = 2

\* C8: for a 1-block operator with an exact sub-smoother, one sweep with
\* damping 1 from a zero initial guess returns what the sub-smoother returns
\* when invoked on b directly, the solution of A[0][0] x = b.
C8_SingleBlockIsSubSolve ==
  (OneExactSweep /\ Rows(this.A_) = 1)
  => /\ Values(fr.X) = SmootherApply(this.Inverse_[1], ZeroVec(Len(Values(fr.B0))),
                                     Values(fr.B0), TRUE)
     /\ Solves(this.A_, fr.X, fr.B0)

\* C8 witness: such a run on a flat x with a nonzero entry value has returned
C8_Witness ==
  /\ OneExactSweep /\ Rows(this.A_) = 1 /\ this.A_.a[1][1] = -1
  /\ ~fr.X0.blocked /\ Values(fr.X0) = <<1>> /\ Values(fr.B0) = <<2>>
  /\ Len(fr.calls) = 1

\* the entry value of x after the zero-initial-guess reset, if requested
AfterReset == IF fr.InitialGuessIsZero THEN putScalar(fr.X0, 0) ELSE fr.X0

\* C9: with Sweeps = 0, Apply invokes no sub-smoother and returns x as it
\* was on entry when zeroInitialGuess is false, all zero when it is true,
\* for a flat and for a block-partitioned x.
C9_NoSweepsNoChange ==
  (Returned /\ fr.nSweeps = 0)
  => /\ fr.calls = <<>>
     /\ fr.X = AfterReset

\* C9 witness: Apply with Sweeps = 0 has returned a flat, nonzero x zeroed
C9_Witness ==
  /\ Returned /\ fr.nSweeps = 0 /\ fr.InitialGuessIsZero = TRUE
  /\ ~fr.X0.blocked /\ Values(fr.X0) = <<1, 2>>
  /\ Values(fr.X) = <<0, 0>>

\* C10 as claimed: with damping factor 0, Apply leaves x unchanged, whatever
\* the sweep count, the entry value of x, b and the zeroInitialGuess flag.
C10_ZeroDampingKeepsX ==
  (Returned /\ fr.omega = 0) => fr.X = fr.X0

\* C10 as amended: with damping factor 0, Apply returns x as it was after
\* the zero-initial-guess step: unchanged when zeroInitialGuess is false,
\* all zero when it is true; whatever the sweep count, the entry value of x
\* and b.
C10_ZeroDampingKeepsResetX ==
  (Returned /\ fr.omega = 0) => fr.X = AfterReset

\* C10 witness: two sweeps with damping 0 have returned, the guess kept, x
\* nonzero on entry and the sub-smoothers handed nonzero residuals
C10_Witness ==
  /\ Returned /\ fr.omega = 0 /\ fr.nSweeps = 2 /\ Len(fr.calls) = 4
  /\ fr.InitialGuessIsZero = FALSE /\ Values(fr.X0) = <<1, 2>>
  /\ \A k \in 1..4 : SumSeq(fr.calls[k].B) # 0

\* the call of Apply that has returned, made over again with x passed
\* block-partitioned (the same values, in the block order of the operator)
BlockedRun ==
  RunApply(this, ApplyEnter(this, BlockedVector(BlocksFor(this.A_, fr.X0)), fr.B0,
                            fr.InitialGuessIsZero))

\* C11: when Apply is given a flat x, the flat vector it returns, partitioned
\* again with the operator's column partition, equals block for block the
\* block-partitioned vector the sweeps worked on, and equals what Apply returns
\* when the same values are passed block-partitioned; for plain and for
\* reordered operators.
C11_FlatRoundTrip ==
  (Returned /\ ~fr.X0.blocked)
  => LET run == BlockedRun
     IN /\ BlocksFor(this.A_, fr.X) = fr.rcpX.blocks
        /\ run.pc = "done" /\ run.err = "none"
        /\ run.X.blocks = BlocksFor(this.A_, fr.X)

\* C11 witness: two sweeps on a reordered, coupled operator have returned a
\* flat x that differs from its entry value and from the working vector's
\* blocks laid end to end
C11_Witness ==
  /\ Returned /\ ~fr.X0.blocked /\ this.A_.reordered
  /\ this.A_.a[2][1] # 0 /\ Len(fr.calls) = 4
  /\ fr.X # fr.X0 /\ fr.X # Merge(fr.rcpX)

\* C12: an Apply called while the setup state is false throws RuntimeError
\* before anything else: x is as on entry, not zeroed even when
\* zeroInitialGuess is true, and no sub-smoother has been invoked.
C12_ApplyBeforeSetup ==
  (ret.op = "Apply" /\ this.isSetup = FALSE)
  => /\ fr.pc = "done" /\ fr.err = "RuntimeError" /\ ret.err = "RuntimeError"
     /\ fr.X = fr.X0 /\ fr.B = fr.B0
     /\ fr.calls = <<>>

\* C12 witness: Apply has been called with zeroInitialGuess true and a
\* nonzero x on a smoother with a registered sub-smoother and no Setup yet
C12_Witness ==
  /\ ret.op = "Apply" /\ this.isSetup = FALSE /\ this.A_.isNull
  /\ Len(this.FactManager_) = 1 /\ fr.pc = "done"
  /\ fr.InitialGuessIsZero = TRUE /\ Values(fr.X0) = <<2, 2>>

\* C13: an Apply called while the setup state is true and the bound operator
\* is not block-partitioned throws the error of a failed cast (the
\* Exceptions::BadCast that Setup throws at line 104, the spec's TypeMismatch)
\* and leaves x as on entry.
C13_ApplyTypeMismatch ==
  (ret.op = "Apply" /\ this.isSetup = TRUE /\ ~this.A_.blocked)
  => /\ fr.pc = "done" /\ fr.err = "BadCast"
     /\ fr.X = fr.X0

\* the state has just been entered by a call AddFactoryManager(FactManager, pos)
Registered == ret.op = "AddFactoryManager"

\* C14: AddFactoryManager with a negative position throws (the
\* Exceptions::RuntimeError of line 56, the spec's InvalidArgument) and leaves
\* the registry, its size and every entry, as it was.
C14_NegativePositionRejected ==
  [][(Registered' /\ ret'.pos < 0)
     => /\ ret'.err = "RuntimeError"
        /\ this'.FactManager_ = this.FactManager_
        /\ this' = this]_vars

\* C14 witness: AddFactoryManager with position -1 has thrown on a registry
\* holding two entries
C14_Witness ==
  /\ Registered /\ ret.pos = -1 /\ ret.err = "RuntimeError"
  /\ Len(this.FactManager_) = 2

\* C15: AddFactoryManager with 0 <= position < registry size replaces exactly
\* the entry at that position: it returns, the registry size is unchanged, the
\* entry at the position is the new one and every other entry keeps its value
\* and its place.
C15_ReplaceInPlace ==
  [][(Registered' /\ 0 <= ret'.pos /\ ret'.pos < Len(this.FactManager_))
     => /\ ret'.err = "none"
        /\ Len(this'.FactManager_) = Len(this.FactManager_)
        /\ \A k \in 1..Len(this.FactManager_) :
             this'.FactManager_[k] = IF k = ret'.pos + 1 THEN ret'.FactManager
                                     ELSE this.FactManager_[k]]_vars

\* C15 witness: the middle entry of a registry of three has been replaced by
\* an entry that differs from both its neighbours
C15_Witness ==
  /\ Registered /\ ret.pos = 1 /\ ret.err = "none"
  /\ Len(this.FactManager_) = 3
  /\ this.FactManager_[2] = ret.FactManager
  /\ this.FactManager_[1] # ret.FactManager /\ this.FactManager_[3] # ret.FactManager

\* C16: AddFactoryManager with position >= registry size never throws: the
\* entry is placed at index (previous size), the size grows by one and the
\* previous entries are unchanged; when position > previous size no entry ends
\* up at the requested position.
C16_AppendBeyondEnd ==
  [][(Registered' /\ ret'.pos >= Len(this.FactManager_))
     => /\ ret'.err = "none"
        /\ this'.FactManager_ = Append(this.FactManager_, ret'.FactManager)
        /\ ret'.pos > Len(this.FactManager_) => ret'.pos >= Len(this'.FactManager_)]_vars

\* C16 witness: an entry registered at position 4 has been appended at index 1
\* of a registry that held one entry
C16_Witness ==
  /\ Registered /\ ret.pos = 4 /\ ret.err = "none"
  /\ Len(this.FactManager_) = 2 /\ this.FactManager_[2] = ret.FactManager
  /\ this.FactManager_[1] # ret.FactManager

\* the configuration of a smoother: the registry and the parameters
Configuration(obj) == <<obj.FactManager_, obj.pL>>

\* C17 as claimed: the copy of a smoother, set up or not, has the
\* configuration of the original and no bound state: its setup state is false,
\* its sub-smoother list is empty and it holds no operator.
C17_CopyIsUnbound ==
  [][ret'.op = "Copy"
     => /\ Configuration(this') = Configuration(this)
        /\ this'.isSetup = FALSE /\ this'.Inverse_ = <<>> /\ this'.A_.isNull]_vars

\* C17 as amended: the copy of a smoother has the configuration of the
\* original and also its bound state: the operator, the map extractors, the
\* sub-smoother list, the nested-block flags and the setup state are those
\* of the original, so the copy of a set-up smoother is set up.
C17_CopyKeepsBoundState ==
  [][ret'.op = "Copy"
     => /\ Configuration(this') = Configuration(this)
        /\ Bound(this') = Bound(this)]_vars

\* C17 witness: a smoother set up on a 2 x 2 block operator has been copied
C17_Witness ==
  /\ ret.op = "Copy" /\ this.isSetup = TRUE
  /\ Len(this.Inverse_) = 2 /\ Rows(this.A_) = 2 /\ Len(this.FactManager_) = 2

\* C18: Apply never modifies the right-hand side: at every point of the call
\* and after it, for every sweep count, damping factor and flag value, b is
\* what the caller passed, and so is the block-partitioned form of it that the
\* residuals are built from.
C18_RightHandSideKept ==
  (fr.pc # "idle" /\ fr.err = "none")
  => /\ fr.B = fr.B0
     /\ fr.rcpB.blocks = BlocksFor(this.A_, fr.B0)

\* C18 witness: two sweeps on a coupled operator have returned with a
\* block-partitioned b, the last residual differing from b
C18_Witness ==
  /\ Returned /\ fr.B0.blocked /\ Len(fr.calls) = 4 /\ fr.omega = 1
  /\ this.A_.a[2][1] # 0 /\ this.A_.a[1][2] # 0
  /\ fr.residual # fr.rcpB

\* every sub-smoother call so far was handed an all-zero correction vector
\* of its row's shape and a right-hand side of its row's shape, the last one
\* the row's block of the residual vector
ZeroCorrectionAndRowResidual ==
  /\ \A k \in 1..Len(fr.calls) :
       LET c == fr.calls[k]
       IN /\ c.X = ZeroVec(this.domainMapExtractor_.sizes[c.i + 1])
          /\ Len(c.B) = this.rangeMapExtractor_.sizes[c.i + 1]
  /\ fr.calls # <<>>
     => LET c == fr.calls[Len(fr.calls)] IN c.B = fr.residual.blocks[c.i + 1]

\* C19 as claimed: every sub-smoother call made by Apply passes a fresh
\* all-zero correction vector of row i's shape, the row-i sub-vector of the
\* residual, and the value true as its third argument.
C19_SubSmootherFlagTrue ==
  (fr.pc # "idle" /\ fr.err = "none")
  => /\ ZeroCorrectionAndRowResidual
     /\ \A k \in 1..Len(fr.calls) : fr.calls[k].InitialGuessIsZero = TRUE

\* C19 as amended: every sub-smoother call made by Apply passes a fresh
\* all-zero correction vector of row i's shape, the row-i sub-vector of the
\* residual, and the value false as its third argument.
C19_SubSmootherFlagFalse ==
  (fr.pc # "idle" /\ fr.err = "none")
  => /\ ZeroCorrectionAndRowResidual
     /\ \A k \in 1..Len(fr.calls) : fr.calls[k].InitialGuessIsZero = FALSE

\* C19 witness: four sub-smoother calls have been made in a run with
\* zeroInitialGuess true on blocks of two sizes, the last one on a nonzero
\* residual while x is nonzero
C19_Witness ==
  /\ Returned /\ Len(fr.calls) = 4 /\ fr.InitialGuessIsZero = TRUE
  /\ this.domainMapExtractor_.sizes = <<2, 1>>
  /\ SumSeq(fr.calls[4].B) # 0 /\ SumSeq(Values(fr.X)) # 0

\* the call of Apply that has returned, made over again by a reference that
\* subtracts the row contribution in every row of every sweep: the loops run
\* from the same entry (x zeroed if requested) with the condition of line 252
\* always true
ReferenceRun ==
  RunApply(this, [ApplyEnter(this, fr.X0, fr.B0, fr.InitialGuessIsZero)
                    EXCEPT !.InitialGuessIsZero = FALSE])

\* C20: Apply skips the subtraction of the row contribution exactly in row 0
\* of sweep 0 of a call with zeroInitialGuess true, does it in every other
\* (sweep, row), and returns the x that the reference returns which does the
\* subtraction in every row of every sweep.
C20_SkipIsPureOptimization ==
  Returned
  => LET ref == ReferenceRun
     IN /\ \A k \in 1..Len(fr.calls) :
             fr.calls[k].product
               = ~(fr.InitialGuessIsZero /\ fr.calls[k].i = 0 /\ fr.calls[k].run = 0)
        /\ ref.pc = "done" /\ ref.err = "none"
        /\ ref.X = fr.X
        /\ Len(ref.calls) = Len(fr.calls)
        /\ \A k \in 1..Len(fr.calls) : ref.calls[k].B = fr.calls[k].B

\* C20 witness: two sweeps with zeroInitialGuess true on a coupled 2 x 2
\* operator have returned a nonzero x, from a nonzero entry value of x
C20_Witness ==
  /\ Returned /\ fr.InitialGuessIsZero = TRUE /\ Len(fr.calls) = 4
  /\ this.A_.a[2][1] # 0 /\ this.A_.a[1][2] # 0 /\ fr.omega = 1
  /\ SumSeq(Values(fr.X0)) # 0 /\ SumSeq(Values(fr.X)) # 0
  /\ ~fr.calls[1].product /\ fr.calls[3].product

\* the entry values of x a caller could have passed in place of X0, in the
\* form of X0
OtherEntries ==
  {X \in BothForms(XData(Dim(getBlockedDomainMap(this.A_))), getBlockedDomainMap(this.A_)) :
     X.blocked = fr.X0.blocked}

\* C21: with zeroInitialGuess true the x that Apply returns does not depend
\* on the entry value of x: the run made over again from any other entry
\* value (same operator, b, sweeps, damping and sub-smoothers) returns the
\* same x, and hands the sub-smoothers the same residuals.
C21_EntryValueIgnored ==
  (Returned /\ fr.InitialGuessIsZero = TRUE)
  => \A X \in OtherEntries :
       LET other == RunApply(this, ApplyEnter(this, X, fr.B0, TRUE))
       IN /\ other.pc = "done" /\ other.err = "none"
          /\ other.X = fr.X
          /\ other.calls = fr.calls

\* C21 witness: two sweeps with zeroInitialGuess true on a coupled operator
\* have returned a nonzero x, from a nonzero entry value, while another
\* entry value could have been passed
C21_Witness ==
  /\ Returned /\ fr.InitialGuessIsZero = TRUE /\ Len(fr.calls) = 4
  /\ this.A_.a[2][1] # 0 /\ fr.omega = 1
  /\ Values(fr.X0) = <<1, 2>> /\ SumSeq(Values(fr.X)) # 0
  /\ \E X \in OtherEntries : X # fr.X0

\* C22: whatever calls of AddFactoryManager and Setup came before, an Apply
\* made while the setup state is true on a bound operator with N block rows
\* returns after exactly S*N sub-smoother calls, S the sweep count: the k-th
\* call is row (k-1) mod N of sweep (k-1) div N.
C22_CallsPerSweep ==
  (ret.op = "Apply" /\ fr.pc = "done" /\ this.isSetup = TRUE /\ this.A_.blocked)
  => LET N == Rows(this.A_)
     IN /\ fr.err = "none"
        /\ Len(fr.calls) = fr.nSweeps * N
        /\ \A k \in 1..Len(fr.calls) :
             /\ fr.calls[k].i = (k - 1) % N
             /\ fr.calls[k].run = (k - 1) \div N

\* C23: an Apply that has entered its loops returns: it reaches its return
\* with all S sweeps complete, after one sub-smoother call per block row and
\* sweep, and nothing else is waited for.
C23_ApplyTerminates ==
  (fr.pc = "sweep")
    ~> (/\ Returned
        /\ fr.run = fr.nSweeps /\ fr.i = 0
        /\ Len(fr.calls) = fr.nSweeps * Rows(this.A_))

\* C23 witness: an Apply with two sweeps on three-entry vectors over two
\* block rows has returned, the last sweep's last row done
C23_Witness ==
  /\ Returned /\ fr.nSweeps = 2 /\ fr.run = 2 /\ Rows(this.A_) = 2
  /\ Len(fr.calls) = 4 /\ fr.calls[4].run = 1 /\ fr.calls[4].i = 1
  /\ Len(Values(fr.X0)) = 3

====
